---- MODULE Spec2Model ----
(***************************************************************************)
(* Zathura Companion (zathura_bot.py): a Telegram bot that relays free     *)
(* text to the Gemini text backend and /generate prompts to the Imagen     *)
(* backend.  The model covers main(), the update intake (the custom        *)
(* webhook listener or the polling loop), the three handlers and the two   *)
(* backend adapters.                                                       *)
(*                                                                         *)
(* Strings are sequences of string tokens, so that concatenation, joining  *)
(* and formatting are computed and not assumed.  JSON objects are          *)
(* functions from key names, JSON lists are sequences; {} and [] are both  *)
(* the empty function <<>>.                                                *)
(***************************************************************************)
EXTENDS Integers, Sequences, FiniteSets, TLC

\* ---------------------------------------------------------------- bounds
\* Longest list of grounding attributions the backend returns.
MaxAttr == 4
\* Most argument tokens after /generate.
MaxArgs == 2
\* Most updates waiting at the listener (socket backlog / update queue).
MaxBacklog == 1

\* ------------------------------------------------------- program constants
\* sources[:3]
MaxSources == 3
\* timeout=15 of the text request, timeout=30 of the image request
TEXT_TIMEOUT == 15
IMAGE_TIMEOUT == 30

Chats == {"chatA", "chatB"}

\* ------------------------------------------------------------ JSON helpers
\* dict.get(key, default)
Get(obj, key, default) == IF key \in DOMAIN obj THEN obj[key] ELSE default

\* All sequences over S of length at most n.
SeqsUpTo(S, n) == UNION {[1..k -> S] : k \in 0..n}

\* ------------------------------------------------------------- string ops
RECURSIVE Join(_, _)
\* sep.join(tokens): the tokens with sep between neighbours.
Join(tokens, sep) ==
    IF Len(tokens) = 0 THEN <<>>
    ELSE IF Len(tokens) = 1 THEN <<tokens[1]>>
    ELSE <<tokens[1], sep>> \o Join(Tail(tokens), sep)

\* lst[:n]
Prefix(lst, n) == SubSeq(lst, 1, IF Len(lst) < n THEN Len(lst) ELSE n)

\* ------------------------------------------------------- fixed message texts
DefaultText == <<"Sorry, I couldn't process that request.">>
ConnectTroubleText == <<"I'm having trouble connecting to the AI service right now.">>
SourcesHeader == <<"\n\nSources:\n">>
WelcomeMessage == <<"Hello! I am **Zathura Companion**, your AI assistant for this chat. ...">>
\* (the code-span marks around the example are left out of the token)
UsageMessage == <<"Please provide a description for the image. Example: /generate a neon blue dragon">>
ImageFailedMessage == <<"Image generation failed. Please try a different prompt.">>
StylePrefix == "Professional digital art, highly detailed, sci-fi: "

\* --------------------------------------------------------- backend replies
\* The requests.exceptions.RequestException subclasses that requests.post,
\* raise_for_status (non-2xx) and response.json() (a body that is no JSON)
\* raise.
TransportFailures == {"Timeout", "ConnectionError", "HTTPError", "JSONDecodeError"}

\* Texts the text backend answers with; the second carries one unpaired
\* Markdown emphasis mark.
BackendTexts == {<<"Mount Everest.">>, <<"snake_case">>}

\* groundingAttributions[].web: two complete entries on distinct URIs and one
\* entry that has no title and repeats the first URI.
Webs ==
    { [title |-> "A", uri |-> "u1"],
      [title |-> "B", uri |-> "u2"],
      [uri |-> "u1"] }

Attributions == {[web |-> w] : w \in Webs}

PartsChoices ==
    {<<>>, << <<>> >>} \cup {<<[text |-> t]>> : t \in BackendTexts}

ContentChoices == {<<>>} \cup {[parts |-> p] : p \in PartsChoices}

GroundingChoices ==
    {<<>>} \cup {[groundingAttributions |-> l] : l \in SeqsUpTo(Attributions, MaxAttr)}

Candidates ==
    {<<>>}
    \cup {[content |-> c] : c \in ContentChoices}
    \cup {[groundingMetadata |-> g] : g \in GroundingChoices}
    \cup {[content |-> c, groundingMetadata |-> g] :
              c \in ContentChoices, g \in GroundingChoices}

\* 2xx bodies of the text endpoint.
TextData ==
    {<<>>, [candidates |-> <<>>]} \cup {[candidates |-> <<c>>] : c \in Candidates}

\* 2xx bodies of the image endpoint.
ImageData ==
    { <<>>,
      [predictions |-> <<>>],
      [predictions |-> << <<>> >>],
      [predictions |-> <<[bytesBase64Encoded |-> <<>>]>>],
      [predictions |-> <<[bytesBase64Encoded |-> <<"iVBORw0KGgo=">>]>>] }

NoData == <<>>

\* An outcome of the HTTP exchange: the failure raised, or "OK" and the body.
Outcomes(dataSet) ==
    {[status |-> f, data |-> NoData] : f \in TransportFailures}
    \cup {[status |-> "OK", data |-> d] : d \in dataSet}

\* A value returned by an adapter, or the exception that left it.
Returned(v) == [kind |-> "return", isNone |-> FALSE, value |-> v, logged |-> <<>>]
ReturnedLogged(v, l) == [kind |-> "return", isNone |-> FALSE, value |-> v, logged |-> l]
ReturnedNone(l) == [kind |-> "return", isNone |-> TRUE, value |-> <<>>, logged |-> l]
Raised(e) == [kind |-> "raise", isNone |-> FALSE, value |-> <<e>>, logged |-> <<>>]
NoResult == [kind |-> "none", isNone |-> FALSE, value |-> <<>>, logged |-> <<>>]

LogRecord(level, msg, detail) == [level |-> level, msg |-> msg, detail |-> detail]

\* ------------------------------------------------- generate_gemini_response
\* Variant: the line is numbered with the loop index itself (from 0).
SourceLineFromZero(i, source) ==
    LET web == Get(source, "web", <<>>)
        title == Get(web, "title", "Link")
        uri == Get(web, "uri", "#")
    IN <<ToString(i), ". [", title, "](", uri, ")\n">>

\* f"{i+1}. [{title}]({uri})\n" for the i-th (0-based) source
SourceLine(i, source) ==
    LET web == Get(source, "web", <<>>)
        title == Get(web, "title", "Link")
        uri == Get(web, "uri", "#")
    IN <<ToString(i + 1), ". [", title, "](", uri, ")\n">>

RECURSIVE SourceLines(_, _)
\* the loop body over enumerate(...) from index i on
SourceLines(i, rest) ==
    IF Len(rest) = 0 THEN <<>>
    ELSE SourceLine(i, Head(rest)) \o SourceLines(i + 1, Tail(rest))

\* "\n\nSources:\n" followed by one line per source of sources[:3]
SourceList(sources) == SourcesHeader \o SourceLines(0, Prefix(sources, MaxSources))

\* Variant: the except branch puts the exception into the returned message.
GeminiResultLeaky(outcome) ==
    IF outcome.status \in TransportFailures
    THEN ReturnedLogged(ConnectTroubleText \o <<outcome.status>>,
             <<LogRecord("error", "Gemini API Request failed", outcome.status)>>)
    ELSE
      LET cands == Get(outcome.data, "candidates", << <<>> >>)
      IN IF Len(cands) = 0 THEN Raised("IndexError")
         ELSE
           LET cand == cands[1]
               parts == Get(Get(cand, "content", <<>>), "parts", << <<>> >>)
           IN IF Len(parts) = 0 THEN Raised("IndexError")
              ELSE
                LET text == Get(parts[1], "text", DefaultText)
                    sources == Get(Get(cand, "groundingMetadata", <<>>),
                                   "groundingAttributions", <<>>)
                IN Returned(IF Len(sources) > 0
                            THEN text \o SourceList(sources)
                            ELSE text)

\* Variant: no except clause, the transport failure leaves the adapter.
GeminiResultNoExcept(outcome) ==
    IF outcome.status \in TransportFailures
    THEN Raised(outcome.status)
    ELSE
      LET cands == Get(outcome.data, "candidates", << <<>> >>)
      IN IF Len(cands) = 0 THEN Raised("IndexError")
         ELSE
           LET cand == cands[1]
               parts == Get(Get(cand, "content", <<>>), "parts", << <<>> >>)
           IN IF Len(parts) = 0 THEN Raised("IndexError")
              ELSE
                LET text == Get(parts[1], "text", DefaultText)
                    sources == Get(Get(cand, "groundingMetadata", <<>>),
                                   "groundingAttributions", <<>>)
                IN Returned(IF Len(sources) > 0
                            THEN text \o SourceList(sources)
                            ELSE text)

\* The code after the request: raise_for_status, json(), field extraction.
GeminiResult(outcome) ==
    IF outcome.status \in TransportFailures
    THEN ReturnedLogged(ConnectTroubleText,
             <<LogRecord("error", "Gemini API Request failed", outcome.status)>>)
    ELSE
      LET data == outcome.data
          cands == Get(data, "candidates", << <<>> >>)
      IN IF Len(cands) = 0 THEN Raised("IndexError")
         ELSE
           LET cand == cands[1]
               parts == Get(Get(cand, "content", <<>>), "parts", << <<>> >>)
           IN IF Len(parts) = 0 THEN Raised("IndexError")
              ELSE
                LET text == Get(parts[1], "text", DefaultText)
                    sources == Get(Get(cand, "groundingMetadata", <<>>),
                                   "groundingAttributions", <<>>)
                IN Returned(IF Len(sources) > 0
                            THEN text \o SourceList(sources)
                            ELSE text)

\* The request generate_gemini_response posts.
GeminiRequest(prompt, key) ==
    [kind |-> "text", key |-> key, prompt |-> prompt, timeout |-> TEXT_TIMEOUT]

\* --------------------------------------------------- generate_imagen_image
ImagenResult(outcome) ==
    IF outcome.status \in TransportFailures
    THEN ReturnedNone(<<LogRecord("error", "Imagen API Request failed", outcome.status)>>)
    ELSE
      LET preds == Get(outcome.data, "predictions", << <<>> >>)
      IN IF Len(preds) = 0 THEN Raised("IndexError")
         ELSE
           LET base64_data == Get(preds[1], "bytesBase64Encoded", <<>>)
           IN IF Len(base64_data) > 0
              THEN Returned(<<"data:image/png;base64,">> \o base64_data)
              ELSE ReturnedNone(<<LogRecord("error", "Imagen API returned no image data",
                                            "data")>>)

\* The request generate_imagen_image posts: the prompt inside the style template.
ImagenRequest(prompt, key) ==
    [kind |-> "image", key |-> key, prompt |-> <<StylePrefix>> \o prompt,
     timeout |-> IMAGE_TIMEOUT]

\* What the backend can answer to a request carrying this key: without a key
\* the request is still posted and the backend rejects it or stays silent.
BackendOutcomes(dataSet, key) ==
    IF key = "" THEN {o \in Outcomes(dataSet) : o.status # "OK"}
    ELSE Outcomes(dataSet)

\* -------------------------------------------------------- Telegram platform
\* Tokens that hold one unpaired emphasis mark of the legacy Markdown mode.
UnpairedMarks == {"snake_case"}

RECURSIVE CountUnpaired(_)
CountUnpaired(body) ==
    IF Len(body) = 0 THEN 0
    ELSE (IF Head(body) \in UnpairedMarks THEN 1 ELSE 0) + CountUnpaired(Tail(body))

\* The platform parses a Markdown body only when its emphasis marks pair up.
MarkdownOK(body) == CountUnpaired(body) % 2 = 0

\* Outcomes of update.message.reply_text(body, parse_mode): sent, rejected
\* by the platform's entity parser, or lost to a network error.
ReplyOutcomes(body, parse_mode) ==
    IF parse_mode = "Markdown" /\ ~MarkdownOK(body)
    THEN {"BadRequest"}
    ELSE {"sent", "NetworkError"}

\* Outcomes of context.bot.send_chat_action(...)
ChatActionOutcomes == {"sent", "NetworkError"}

\* ------------------------------------------------------------------ inputs
ArgTokens == {"neon", "snake_case"}

NoUpdate == [chat |-> "none", command |-> "", args |-> <<>>, text |-> <<>>]

\* The updates a chat can send: /start, /generate with 0..MaxArgs tokens, a
\* command nobody handles, a free-text message, a message without text.
Updates(c) ==
    { [chat |-> c, command |-> "start", args |-> <<>>, text |-> <<"/start">>],
      [chat |-> c, command |-> "help", args |-> <<>>, text |-> <<"/help">>],
      [chat |-> c, command |-> "", args |-> <<>>, text |-> <<"What is the tallest mountain?">>],
      [chat |-> c, command |-> "", args |-> <<>>, text |-> <<>>] }
    \cup { [chat |-> c, command |-> "generate", args |-> a,
            text |-> Join(<<"/generate">> \o a, " ")] : a \in SeqsUpTo(ArgTokens, MaxArgs) }

\* ------------------------------------------------------------------- state
VARIABLES
    BOT_TOKEN,        \* os.getenv("BOT_TOKEN"), "" when unset
    GEMINI_API_KEY,   \* os.getenv("GEMINI_API_KEY", "")
    WEBHOOK_URL,      \* os.environ.get('WEBHOOK_URL'), "" when unset
    mainpc,           \* where main() is: start, exited, serve_forever, run_polling
    application,      \* the global Application: "None" or "built"
    handlers,         \* handlers added to the application, in order
    webhook,          \* URL handed to set_webhook, <<>> when none
    backlog,          \* chats whose update waits to be taken by the listener
    pc,               \* position of the update being handled
    update,           \* the update being handled
    handler,          \* callback process_update chose for it
    notices,          \* chat actions sent for it
    requests,         \* backend requests posted for it
    outcome,          \* what came back for the posted request
    result,           \* what the adapter returned / raised
    replies,          \* reply_text calls made for it
    fault,            \* exception that left the handler, "none" if none
    log,              \* log records written since the update was taken
    httpStatus        \* status the webhook listener answered the POST with

vars == <<BOT_TOKEN, GEMINI_API_KEY, WEBHOOK_URL, mainpc, application, handlers,
          webhook, backlog, pc, update, handler, notices, requests, outcome,
          result, replies, fault, log, httpStatus>>

env == <<BOT_TOKEN, GEMINI_API_KEY, WEBHOOK_URL>>
boot == <<mainpc, application, handlers, webhook>>
work == <<update, handler, notices, requests, outcome, result, replies, fault, log>>

NoOutcome == [status |-> "none", data |-> NoData]

Init ==
    /\ BOT_TOKEN \in {"", "123:ABC"}
    /\ GEMINI_API_KEY \in {"", "key"}
    /\ WEBHOOK_URL \in {"", "https://bot.example"}
    /\ mainpc = "start"
    /\ application = "None"
    /\ handlers = <<>>
    /\ webhook = <<>>
    /\ backlog = <<>>
    /\ pc = "idle"
    /\ update = NoUpdate
    /\ handler = "none"
    /\ notices = <<>>
    /\ requests = <<>>
    /\ outcome = NoOutcome
    /\ result = NoResult
    /\ replies = <<>>
    /\ fault = "none"
    /\ log = <<>>
    /\ httpStatus = "none"

\* ------------------------------------------------------------------ main()
\* The three add_handler calls, in order.
RegisteredHandlers ==
    << [type |-> "CommandHandler", command |-> "start", callback |-> "start_command"],
       [type |-> "CommandHandler", command |-> "generate", callback |-> "generate_image_command"],
       [type |-> "MessageHandler", command |-> "", callback |-> "handle_text_message"] >>

\* Variant: the return after the BOT_TOKEN error is missing.
main_noreturn ==
    /\ mainpc = "start"
    /\ log' = IF BOT_TOKEN = ""
              THEN <<LogRecord("error", "BOT_TOKEN environment variable not set. Exiting.", "")>>
              ELSE <<>>
    /\ application' = "built"
    /\ handlers' = RegisteredHandlers
    /\ webhook' = IF WEBHOOK_URL # "" THEN <<WEBHOOK_URL, "/", BOT_TOKEN>> ELSE <<>>
    /\ mainpc' = IF WEBHOOK_URL # "" THEN "serve_forever" ELSE "run_polling"
    /\ UNCHANGED <<env, backlog, pc, update, handler, notices, requests, outcome,
                   result, replies, fault, httpStatus>>

\* main(), up to the call that blocks (serve_forever / run_polling), with
\* the warning of the __main__ block before it.
main ==
    /\ mainpc = "start"
    /\ LET warn == IF GEMINI_API_KEY = ""
                   THEN <<LogRecord("warning", "GEMINI_API_KEY is not set", "")>>
                   ELSE <<>>
       IN IF BOT_TOKEN = ""
          THEN /\ log' = warn \o <<LogRecord("error", "BOT_TOKEN environment variable not set. Exiting.", "")>>
               /\ mainpc' = "exited"
               /\ UNCHANGED <<application, handlers, webhook>>
          ELSE /\ log' = warn
               /\ application' = "built"
               /\ handlers' = RegisteredHandlers
               /\ IF WEBHOOK_URL # ""
                  THEN /\ webhook' = <<WEBHOOK_URL, "/", BOT_TOKEN>>
                       /\ mainpc' = "serve_forever"
                  ELSE /\ webhook' = <<>>
                       /\ mainpc' = "run_polling"
    /\ UNCHANGED <<env, backlog, pc, update, handler, notices, requests, outcome,
                   result, replies, fault, httpStatus>>

Serving == mainpc \in {"serve_forever", "run_polling"}

\* The platform delivers an update of chat c: it waits in the listener's
\* socket backlog (webhook) or in the update queue (polling).
Arrive(c) ==
    /\ Serving
    /\ Len(backlog) < MaxBacklog
    /\ backlog' = Append(backlog, c)
    /\ UNCHANGED <<env, boot, pc, work, httpStatus>>

\* ------------------------------------------------- Application.process_update
\* Variant: the MessageHandler is registered with filters.TEXT alone.
check_update_text_only(h, u) ==
    IF h.type = "CommandHandler"
    THEN u.command = h.command
    ELSE Len(u.text) > 0

\* Handler.check_update: a CommandHandler takes its own command; the
\* MessageHandler's filter is filters.TEXT & ~filters.COMMAND.
check_update(h, u) ==
    IF h.type = "CommandHandler"
    THEN u.command = h.command
    ELSE Len(u.text) > 0 /\ u.command = ""

RECURSIVE SelectHandler(_, _)
\* The first registered handler that takes the update, "none" if none does.
SelectHandler(hs, u) ==
    IF Len(hs) = 0 THEN "none"
    ELSE IF check_update(Head(hs), u) THEN Head(hs).callback
    ELSE SelectHandler(Tail(hs), u)

\* Taking the next update clears what was recorded for the previous one.
TakeUpdate(u) ==
    /\ backlog' = Tail(backlog)
    /\ update' = u
    /\ notices' = <<>>
    /\ requests' = <<>>
    /\ outcome' = NoOutcome
    /\ result' = NoResult
    /\ replies' = <<>>
    /\ httpStatus' = "none"

\* Variant: the listener is a threading server, a request is taken while the
\* one before is still being processed.
do_POST_threading ==
    /\ mainpc = "serve_forever"
    /\ Len(backlog) > 0
    /\ \E u \in Updates(Head(backlog)) :
         /\ TakeUpdate(u)
         /\ handler' = SelectHandler(handlers, u)
         /\ pc' = IF SelectHandler(handlers, u) = "none" THEN "returned" ELSE "handler"
         /\ fault' = "none"
         /\ log' = <<>>
    /\ UNCHANGED <<env, boot>>

\* do_POST up to the point where a handler is about to run: read the body,
\* json.loads, Update.de_json, process_update picks the handler.  A body that
\* is no JSON raises inside the try block.
do_POST ==
    /\ mainpc = "serve_forever"
    /\ pc = "idle"
    /\ Len(backlog) > 0
    /\ \E bodyOK \in BOOLEAN :
         IF bodyOK
         THEN \E u \in Updates(Head(backlog)) :
                /\ TakeUpdate(u)
                /\ handler' = SelectHandler(handlers, u)
                /\ pc' = IF SelectHandler(handlers, u) = "none" THEN "returned" ELSE "handler"
                /\ fault' = "none"
                /\ log' = <<>>
         ELSE /\ TakeUpdate(NoUpdate)
              /\ handler' = "none"
              /\ pc' = "raised"
              /\ fault' = "json.JSONDecodeError"
              /\ log' = <<>>
    /\ UNCHANGED <<env, boot>>

\* The polling loop takes the next update off the queue and picks the handler.
run_polling ==
    /\ mainpc = "run_polling"
    /\ pc = "idle"
    /\ Len(backlog) > 0
    /\ \E u \in Updates(Head(backlog)) :
         /\ TakeUpdate(u)
         /\ handler' = SelectHandler(handlers, u)
         /\ pc' = IF SelectHandler(handlers, u) = "none" THEN "returned" ELSE "handler"
         /\ fault' = "none"
         /\ log' = <<>>
    /\ UNCHANGED <<env, boot>>

\* ---------------------------------------------------------------- handlers
\* Variant: a send that raised is tried once more.
reply_text_retry(body, parse_mode) ==
    \E o \in ReplyOutcomes(body, parse_mode), o2 \in ReplyOutcomes(body, parse_mode) :
       LET first == [chat |-> update.chat, body |-> body,
                     parse_mode |-> parse_mode, outcome |-> o]
           second == [chat |-> update.chat, body |-> body,
                      parse_mode |-> parse_mode, outcome |-> o2]
       IN /\ replies' = IF o = "sent" THEN Append(replies, first)
                        ELSE Append(Append(replies, first), second)
          /\ pc' = IF o = "sent" \/ o2 = "sent" THEN "returned" ELSE "raised"
          /\ fault' = IF o = "sent" \/ o2 = "sent" THEN "none" ELSE o2

\* await update.message.reply_text(body, parse_mode=...): the call is
\* recorded; when it raises, the exception leaves the handler.
reply_text(body, parse_mode) ==
    \E o \in ReplyOutcomes(body, parse_mode) :
       /\ replies' = Append(replies, [chat |-> update.chat, body |-> body,
                                      parse_mode |-> parse_mode, outcome |-> o])
       /\ pc' = IF o = "sent" THEN "returned" ELSE "raised"
       /\ fault' = IF o = "sent" THEN "none" ELSE o

\* await context.bot.send_chat_action(chat_id, action): when it raises, the
\* exception leaves the handler; otherwise the handler goes on to its
\* logger.info line and the backend call.
send_chat_action(action, info) ==
    \E o \in ChatActionOutcomes :
       /\ notices' = Append(notices, [chat |-> update.chat, action |-> action,
                                      outcome |-> o])
       /\ pc' = IF o = "sent" THEN "noticed" ELSE "raised"
       /\ fault' = IF o = "sent" THEN "none" ELSE o
       /\ log' = IF o = "sent" THEN Append(log, LogRecord("info", info, "prompt")) ELSE log

start_command ==
    /\ pc = "handler"
    /\ handler = "start_command"
    /\ reply_text(WelcomeMessage, "Markdown")
    /\ UNCHANGED <<env, boot, backlog, update, handler, notices, requests, outcome,
                   result, log, httpStatus>>

\* Variant: the typing notice is started without being awaited, so the
\* backend request goes out in the same step.
handle_text_message_notice_unawaited ==
    /\ pc = "handler"
    /\ handler = "handle_text_message"
    /\ \E o \in ChatActionOutcomes :
         notices' = Append(notices, [chat |-> update.chat, action |-> "typing",
                                     outcome |-> o])
    /\ requests' = Append(requests, GeminiRequest(update.text, GEMINI_API_KEY))
    /\ log' = Append(log, LogRecord("info", "Received text prompt", "prompt"))
    /\ pc' = "awaiting"
    /\ fault' = "none"
    /\ UNCHANGED <<env, boot, backlog, update, handler, outcome, result,
                   replies, httpStatus>>

\* handle_text_message, lines 124-128: the typing notice.
handle_text_message_notice ==
    /\ pc = "handler"
    /\ handler = "handle_text_message"
    /\ send_chat_action("typing", "Received text prompt")
    /\ UNCHANGED <<env, boot, backlog, update, handler, requests, outcome, result,
                   replies, httpStatus>>

\* handle_text_message, line 130: generate_gemini_response posts its request.
handle_text_message_call ==
    /\ pc = "noticed"
    /\ handler = "handle_text_message"
    /\ requests' = Append(requests, GeminiRequest(update.text, GEMINI_API_KEY))
    /\ pc' = "awaiting"
    /\ UNCHANGED <<env, boot, backlog, update, handler, notices, outcome, result,
                   replies, fault, log, httpStatus>>

\* The request ends; generate_gemini_response returns or raises.
handle_text_message_result ==
    /\ pc = "awaiting"
    /\ handler = "handle_text_message"
    /\ \E o \in BackendOutcomes(TextData, GEMINI_API_KEY) :
         /\ outcome' = o
         /\ result' = GeminiResult(o)
         /\ log' = log \o GeminiResult(o).logged
         /\ pc' = IF GeminiResult(o).kind = "raise" THEN "raised" ELSE "replying"
         /\ fault' = IF GeminiResult(o).kind = "raise" THEN GeminiResult(o).value[1] ELSE "none"
    /\ UNCHANGED <<env, boot, backlog, update, handler, notices, requests, replies,
                   httpStatus>>

\* handle_text_message, line 132.
handle_text_message_reply ==
    /\ pc = "replying"
    /\ handler = "handle_text_message"
    /\ reply_text(result.value, "Markdown")
    /\ UNCHANGED <<env, boot, backlog, update, handler, notices, requests, outcome,
                   result, log, httpStatus>>

\* Variant: the arguments are joined with nothing between them.
image_prompt_nosep(u) == Join(u.args, "")

\* image_prompt = " ".join(context.args)
image_prompt(u) == Join(u.args, " ")

\* The body of the success reply of generate_image_command.
ImageReply(prompt, image_url) ==
    <<"Image generation successful for: *">> \o prompt
    \o <<"*\n\n[View Generated Image (External Link)](">> \o image_url \o <<")">>

\* Variant: the return after the usage reply is missing, so the handler goes
\* on to the notice and the backend call.
generate_image_command_begin_noreturn ==
    /\ pc = "handler"
    /\ handler = "generate_image_command"
    /\ IF Len(update.args) = 0
       THEN \E o \in ReplyOutcomes(UsageMessage, "None"), a \in ChatActionOutcomes :
              /\ replies' = Append(replies, [chat |-> update.chat, body |-> UsageMessage,
                                             parse_mode |-> "None", outcome |-> o])
              /\ notices' = IF o = "sent"
                            THEN Append(notices, [chat |-> update.chat,
                                                  action |-> "upload_photo", outcome |-> a])
                            ELSE notices
              /\ pc' = IF o = "sent" /\ a = "sent" THEN "noticed" ELSE "raised"
              /\ fault' = IF o # "sent" THEN o ELSE IF a # "sent" THEN a ELSE "none"
              /\ log' = log
       ELSE /\ send_chat_action("upload_photo", "Received image generation prompt")
            /\ UNCHANGED replies
    /\ UNCHANGED <<env, boot, backlog, update, handler, requests, outcome, result,
                   httpStatus>>

\* generate_image_command, lines 136-144: the usage reply when there are no
\* arguments, else the upload_photo notice.
generate_image_command_begin ==
    /\ pc = "handler"
    /\ handler = "generate_image_command"
    /\ IF Len(update.args) = 0
       THEN /\ reply_text(UsageMessage, "None")
            /\ UNCHANGED <<notices, log>>
       ELSE /\ send_chat_action("upload_photo", "Received image generation prompt")
            /\ UNCHANGED replies
    /\ UNCHANGED <<env, boot, backlog, update, handler, requests, outcome, result,
                   httpStatus>>

\* generate_image_command, line 146: generate_imagen_image posts its request.
generate_image_command_call ==
    /\ pc = "noticed"
    /\ handler = "generate_image_command"
    /\ requests' = Append(requests, ImagenRequest(image_prompt(update), GEMINI_API_KEY))
    /\ pc' = "awaiting"
    /\ UNCHANGED <<env, boot, backlog, update, handler, notices, outcome, result,
                   replies, fault, log, httpStatus>>

\* The request ends; generate_imagen_image returns or raises.
generate_image_command_result ==
    /\ pc = "awaiting"
    /\ handler = "generate_image_command"
    /\ \E o \in BackendOutcomes(ImageData, GEMINI_API_KEY) :
         /\ outcome' = o
         /\ result' = ImagenResult(o)
         /\ log' = log \o ImagenResult(o).logged
         /\ pc' = IF ImagenResult(o).kind = "raise" THEN "raised" ELSE "replying"
         /\ fault' = IF ImagenResult(o).kind = "raise" THEN ImagenResult(o).value[1] ELSE "none"
    /\ UNCHANGED <<env, boot, backlog, update, handler, notices, requests, replies,
                   httpStatus>>

\* generate_image_command, lines 148-155.
generate_image_command_reply ==
    /\ pc = "replying"
    /\ handler = "generate_image_command"
    /\ IF ~result.isNone
       THEN reply_text(ImageReply(image_prompt(update), result.value), "Markdown")
       ELSE reply_text(ImageFailedMessage, "None")
    /\ UNCHANGED <<env, boot, backlog, update, handler, notices, requests, outcome,
                   result, log, httpStatus>>

\* ------------------------------------------------------ end of one update
\* do_POST, lines 173-178: 200 when process_update came back, else the
\* except branch logs the error and answers 500.  Nothing is sent to the chat.
do_POST_respond ==
    /\ mainpc = "serve_forever"
    /\ pc \in {"returned", "raised"}
    /\ httpStatus' = IF pc = "returned" THEN "200" ELSE "500"
    /\ log' = IF pc = "returned" THEN log
              ELSE Append(log, LogRecord("error", "Error processing update", fault))
    /\ pc' = "idle"
    /\ UNCHANGED <<env, boot, backlog, update, handler, notices, requests, outcome,
                   result, replies, fault>>

\* Polling: the application is done with the update; an exception that left
\* the handler is logged by the application and the loop takes the next one.
run_polling_done ==
    /\ mainpc = "run_polling"
    /\ pc \in {"returned", "raised"}
    /\ log' = IF pc = "returned" THEN log
              ELSE Append(log, LogRecord("error", "No error handlers are registered, logging exception.", fault))
    /\ pc' = "idle"
    /\ UNCHANGED <<env, boot, backlog, update, handler, notices, requests, outcome,
                   result, replies, fault, httpStatus>>

Next ==
    \/ main
    \/ \E c \in Chats : Arrive(c)
    \/ do_POST
    \/ run_polling
    \/ start_command
    \/ handle_text_message_notice
    \/ handle_text_message_call
    \/ handle_text_message_result
    \/ handle_text_message_reply
    \/ generate_image_command_begin
    \/ generate_image_command_call
    \/ generate_image_command_result
    \/ generate_image_command_reply
    \/ do_POST_respond
    \/ run_polling_done

Spec == Init /\ [][Next]_vars

\* ================================================================== claims
\* The update last taken has run to its end (its handler returned or raised).
Handled == pc \in {"returned", "raised", "idle"} /\ update # NoUpdate

TextHandled == Handled /\ handler = "handle_text_message"

ImageHandled == Handled /\ handler = "generate_image_command"

\* C1: for every update and every outcome of the backend call, the handlers
\* make at most one reply_text call for that update (chat actions are not
\* replies), and an update no handler takes gets no reply at all.
C1_AtMostOneReply ==
    /\ Len(replies) <= 1
    /\ (handler = "none" => Len(replies) = 0)

\* C1 witness: an update whose backend call ended has been answered with
\* one reply.
C1_Witness ==
    /\ Handled
    /\ outcome.status # "none"
    /\ Len(replies) = 1
    /\ replies[1].outcome = "sent"

\* C2: /generate without arguments is answered with the fixed usage message,
\* and neither a backend request nor a chat action happens for that update.
C2_UsageWithoutBackend ==
    (handler = "generate_image_command" /\ Len(update.args) = 0) =>
        /\ Len(requests) = 0
        /\ Len(notices) = 0
        /\ outcome = NoOutcome
        /\ \A i \in 1..Len(replies) : replies[i].body = UsageMessage
        /\ (Handled => Len(replies) = 1)

\* C2 witness: a /generate without arguments has been answered.
C2_Witness ==
    /\ ImageHandled
    /\ Len(update.args) = 0
    /\ Len(replies) = 1
    /\ replies[1].body = UsageMessage
    /\ replies[1].outcome = "sent"

\* Position of the "Sources:" header in a reply body, 0 when it has none.
HeaderPos(body) ==
    IF \E k \in 1..Len(body) : body[k] = SourcesHeader[1]
    THEN CHOOSE k \in 1..Len(body) : body[k] = SourcesHeader[1]
    ELSE 0

\* The (title, uri) pairs a reply body lists after its "Sources:" header,
\* read back from the six tokens of each line.
ListedSources(body) ==
    LET h == HeaderPos(body)
    IN IF h = 0 THEN <<>>
       ELSE [k \in 1..((Len(body) - h) \div 6) |->
                [title |-> body[h + 6 * (k - 1) + 3], uri |-> body[h + 6 * (k - 1) + 5]]]

\* The 2xx body carries candidates[0].content.parts[0].text.
TextPresent(data) ==
    /\ "candidates" \in DOMAIN data
    /\ Len(data.candidates) > 0
    /\ "content" \in DOMAIN data.candidates[1]
    /\ "parts" \in DOMAIN data.candidates[1].content
    /\ Len(data.candidates[1].content.parts) > 0
    /\ "text" \in DOMAIN data.candidates[1].content.parts[1]

\* candidates[0].groundingMetadata.groundingAttributions of a 2xx body, the
\* empty list when the path is absent.
ResponseSources(data) ==
    IF /\ "candidates" \in DOMAIN data
       /\ Len(data.candidates) > 0
       /\ "groundingMetadata" \in DOMAIN data.candidates[1]
       /\ "groundingAttributions" \in DOMAIN data.candidates[1].groundingMetadata
    THEN data.candidates[1].groundingMetadata.groundingAttributions
    ELSE <<>>

\* C3 (as claimed): whatever attributions and duplicate URIs a successful text
\* response carries, the source list in the reply has at most 3 entries and
\* no two entries with the same URI.
C3_SourcesCappedAndUnique ==
    (TextHandled /\ outcome.status = "OK" /\ Len(replies) = 1) =>
        LET listed == ListedSources(replies[1].body)
        IN /\ Len(listed) <= 3
           /\ \A i, j \in 1..Len(listed) : i < j => listed[i].uri # listed[j].uri

\* C4: a transport failure of either backend call (timeout, connection
\* error, non-2xx, unreadable body) is turned by the adapter into a returned
\* failure value and by the handler into the apology reply; the failure never
\* leaves the handler as a fault, is logged, and the listener keeps serving
\* and can take the next waiting update once this one is through.
C4_TransportFailureApology ==
    outcome.status \in TransportFailures =>
        /\ result.kind = "return"
        /\ fault \notin TransportFailures
        /\ Serving
        /\ \E i \in 1..Len(log) : log[i].level = "error" /\ log[i].detail = outcome.status
        /\ \A i \in 1..Len(replies) :
              replies[i].body = IF handler = "handle_text_message"
                                THEN ConnectTroubleText ELSE ImageFailedMessage
        /\ (pc = "raised" => fault = "NetworkError" /\ Len(replies) = 1)
        /\ (pc \in {"returned", "idle"} /\ fault = "none" =>
              Len(replies) = 1 /\ replies[1].outcome = "sent")
        /\ (pc = "idle" /\ Len(backlog) > 0 => ENABLED (do_POST \/ run_polling))

\* C4 witness: the text backend timed out and the apology has been sent.
C4_Witness ==
    /\ TextHandled
    /\ outcome.status = "Timeout"
    /\ Len(replies) = 1
    /\ replies[1].outcome = "sent"
    /\ replies[1].body = ConnectTroubleText
    /\ pc = "idle"

\* C5 (as claimed): while one chat's backend call is pending, an update of
\* another chat that waits at the listener can be taken up: its handling
\* does not wait for the pending call.
C5_OtherChatNotHeldUp ==
    (pc = "awaiting" /\ Len(backlog) > 0 /\ Head(backlog) # update.chat) =>
        ENABLED (do_POST \/ run_polling)

\* C6: for a successful text response that carries a text, the reply body is
\* that text and, when the response has attributions, the "Sources:" header
\* and one line per listed attribution in the order of the response, the
\* k-th line being k. [title](uri); without attributions the body is exactly
\* the text.
C6_ReplyBodyFormat ==
    (TextHandled /\ outcome.status = "OK" /\ TextPresent(outcome.data)
       /\ Len(replies) = 1) =>
        LET body == replies[1].body
            txt == outcome.data.candidates[1].content.parts[1].text
            srcs == ResponseSources(outcome.data)
            n == IF Len(srcs) < 3 THEN Len(srcs) ELSE 3
        IN IF Len(srcs) = 0 THEN body = txt
           ELSE /\ Len(body) = Len(txt) + 1 + 6 * n
                /\ SubSeq(body, 1, Len(txt)) = txt
                /\ body[Len(txt) + 1] = "\n\nSources:\n"
                /\ \A k \in 1..n :
                     LET off == Len(txt) + 1 + 6 * (k - 1)
                         web == srcs[k].web
                     IN /\ body[off + 1] = ToString(k)
                        /\ body[off + 2] = ". ["
                        /\ ("title" \in DOMAIN web => body[off + 3] = web.title)
                        /\ body[off + 4] = "]("
                        /\ ("uri" \in DOMAIN web => body[off + 5] = web.uri)
                        /\ body[off + 6] = ")\n"

\* C6 witness: a text with two sources on distinct URIs has been replied.
C6_Witness ==
    /\ TextHandled
    /\ outcome.status = "OK"
    /\ TextPresent(outcome.data)
    /\ Len(ResponseSources(outcome.data)) = 2
    /\ ResponseSources(outcome.data)[1].web = [title |-> "A", uri |-> "u1"]
    /\ ResponseSources(outcome.data)[2].web = [title |-> "B", uri |-> "u2"]
    /\ Len(replies) = 1
    /\ replies[1].outcome = "sent"

\* C7 (as claimed): a 2xx text response whose first candidate's text is
\* structurally absent makes generate_gemini_response return its failure
\* text, without raising and without sources attached.
C7_AbsentTextIsFailure ==
    (handler = "handle_text_message" /\ outcome.status = "OK"
       /\ ~TextPresent(outcome.data)) =>
        /\ result.kind = "return"
        /\ result.value = DefaultText

\* C8 (as claimed): a fault raised while the backend is invoked for an
\* update (before any reply was attempted) is logged and turned into a
\* failure reply sent to the originating chat, and the listener keeps
\* serving.
C8_FaultBecomesFailureReply ==
    (pc = "idle" /\ fault # "none" /\ Len(requests) = 1 /\ outcome.status = "OK"
       /\ result.kind = "raise") =>
        /\ \E i \in 1..Len(log) : log[i].level = "error"
        /\ \E i \in 1..Len(replies) : replies[i].outcome = "sent"
        /\ Serving

\* C9 (as claimed): when sending the chat action fails, the handler still
\* makes the backend call and still sends the final reply.
C9_NoticeBestEffort ==
    (pc = "idle" /\ \E i \in 1..Len(notices) : notices[i].outcome # "sent") =>
        /\ Len(requests) = 1
        /\ Len(replies) = 1

\* C10 (as claimed): a Markdown reply the platform rejects as malformed is
\* sent again with the same body as plain text.
C10_PlainTextFallback ==
    (pc = "idle" /\ \E i \in 1..Len(replies) : replies[i].outcome = "BadRequest") =>
        \E i, j \in 1..Len(replies) :
           /\ replies[i].outcome = "BadRequest"
           /\ replies[j].parse_mode = "None"
           /\ replies[j].body = replies[i].body

\* C11 (as claimed): without a backend API key the bot still serves, and no
\* generation call posts a request to the backend.
C11_NoRequestWithoutKey ==
    GEMINI_API_KEY = "" => Len(requests) = 0

\* C12: without BOT_TOKEN main() ends without building the application,
\* adding a handler, setting a webhook or starting the listener or the
\* polling loop, so no update is ever taken or answered.
C12_NoTokenNoService ==
    BOT_TOKEN = "" =>
        /\ mainpc \in {"start", "exited"}
        /\ application = "None"
        /\ handlers = <<>>
        /\ webhook = <<>>
        /\ backlog = <<>>
        /\ pc = "idle"
        /\ update = NoUpdate
        /\ Len(replies) = 0
        /\ Len(requests) = 0

\* C12 witness: main() has ended for want of the token.
C12_Witness ==
    /\ BOT_TOKEN = ""
    /\ mainpc = "exited"
    /\ \E i \in 1..Len(log) : log[i].level = "error"

\* The update goes to a handler path that calls a backend adapter.
NeedsGeneration ==
    \/ handler = "handle_text_message"
    \/ (handler = "generate_image_command" /\ Len(update.args) > 0)

\* C13 (as claimed): an update that needs generation causes exactly one
\* backend request, a failed request is not retried and is answered with
\* exactly one failure reply, and an update that needs no generation causes
\* no backend request.
C13_ExactlyOneRequest ==
    /\ Len(requests) <= 1
    /\ (~NeedsGeneration => Len(requests) = 0)
    /\ (pc = "idle" /\ update # NoUpdate /\ NeedsGeneration => Len(requests) = 1)
    /\ (pc = "idle" /\ outcome.status \in TransportFailures =>
           /\ Len(replies) = 1
           /\ replies[1].body \in {ConnectTroubleText, ImageFailedMessage})

\* The one route an update belongs to, read off its payload.
ExpectedRoute(u) ==
    IF u.command = "start" THEN "start_command"
    ELSE IF u.command = "generate" THEN "generate_image_command"
    ELSE IF u.command = "" /\ Len(u.text) > 0 THEN "handle_text_message"
    ELSE "none"

\* C14: every update is dispatched to exactly one of the start handler, the
\* generate handler, the free-text handler or to none (at most one
\* registered handler takes it), dispatching raises nothing, and an update
\* with no command and no text, or with an unrecognized command, is dropped
\* without chat action, backend request or reply.
C14_RoutingTotalExclusive ==
    update # NoUpdate =>
        /\ handler = ExpectedRoute(update)
        /\ Cardinality({i \in 1..Len(handlers) : check_update(handlers[i], update)}) <= 1
        /\ (pc = "handler" => fault = "none")
        /\ (handler = "none" =>
              /\ pc \in {"returned", "idle"}
              /\ fault = "none"
              /\ Len(notices) = 0
              /\ Len(requests) = 0
              /\ Len(replies) = 0)

\* C14 witness: an unrecognized command has been dropped and the listener
\* is idle again.
C14_Witness ==
    /\ update.command = "help"
    /\ handler = "none"
    /\ pc = "idle"
    /\ Serving

\* The backend call of the update ended in one of the adapter's failure
\* paths: the except branch, or (image) a 2xx body without image data.
GenerationFailed ==
    /\ outcome.status # "none"
    /\ result.kind = "return"
    /\ \/ (handler = "handle_text_message" /\ outcome.status \in TransportFailures)
       \/ (handler = "generate_image_command" /\ result.isNone)

\* The failure outcomes that differ from the present one only in the detail.
OtherFailures ==
    {[status |-> f, data |-> NoData] : f \in TransportFailures}
    \cup (IF handler = "generate_image_command"
          THEN {[status |-> "OK", data |-> d] : d \in {x \in ImageData : ImagenResult([status |-> "OK", data |-> x]).isNone}}
          ELSE {})

SpacedPrompt(args) ==
    [k \in 1..(2 * Len(args) - 1) |->
        IF k % 2 = 1 THEN args[(k + 1) \div 2] ELSE " "]

\* part occurs in body as a run of neighbouring tokens.
Contains(body, part) ==
    \E off \in 0..(Len(body) - Len(part)) :
       SubSeq(body, off + 1, off + Len(part)) = part

\* C16: for /generate with arguments and a backend success, the prompt is
\* the argument tokens joined by single spaces; the backend gets it inside
\* the style template, and the reply carries the prompt itself, without the
\* template, together with the link to the generated image.
C16_PromptEchoed ==
    (handler = "generate_image_command" /\ Len(update.args) > 0
       /\ outcome.status = "OK" /\ result.kind = "return" /\ ~result.isNone
       /\ Len(replies) = 1) =>
        /\ Len(requests) = 1
        /\ requests[1].prompt = <<StylePrefix>> \o SpacedPrompt(update.args)
        /\ Contains(replies[1].body, SpacedPrompt(update.args))
        /\ \A k \in 1..Len(replies[1].body) : replies[1].body[k] # StylePrefix
        /\ Contains(replies[1].body, <<"data:image/png;base64,">>
                        \o outcome.data.predictions[1].bytesBase64Encoded)

\* C16 witness: /generate with two tokens has been answered after a success.
C16_Witness ==
    /\ ImageHandled
    /\ update.args = <<"neon", "snake_case">>
    /\ outcome.status = "OK"
    /\ ~result.isNone
    /\ Len(replies) = 1

\* C17: within one update the chat action is sent, and its send is over,
\* before the backend request is posted and before the final reply is sent:
\* the step that sends the notice finds and leaves no request and no reply,
\* and a request, or the reply of an update that needed generation, is only
\* made once the notice has gone out.
C17_NoticeBeforeCallAndReply ==
    [][ /\ (Len(notices') > Len(notices) =>
              /\ Len(requests) = 0 /\ Len(requests') = 0
              /\ Len(replies) = 0 /\ Len(replies') = 0)
        /\ (Len(requests') > Len(requests) =>
              /\ Len(notices) = 1
              /\ notices[1].outcome = "sent"
              /\ Len(replies) = 0)
        /\ (Len(replies') > Len(replies) /\ NeedsGeneration =>
              /\ Len(notices) = 1
              /\ notices[1].outcome = "sent"
              /\ Len(requests) = 1) ]_vars

\* C17 witness: notice, backend request and reply have all happened for
\* one update.
C17_Witness ==
    /\ Len(notices) = 1
    /\ Len(requests) = 1
    /\ Len(replies) = 1
    /\ replies[1].outcome = "sent"

\* An attribution that carries both a title and a URI.
CompleteAttribution(a) ==
    /\ "web" \in DOMAIN a
    /\ "title" \in DOMAIN a.web
    /\ "uri" \in DOMAIN a.web

RECURSIVE KeptCitations(_, _)
\* The (title, uri) pairs of the complete attributions of a list, the first
\* of each URI only, in first-seen order.
KeptCitations(sources, seen) ==
    IF Len(sources) = 0 THEN <<>>
    ELSE LET a == Head(sources)
         IN IF CompleteAttribution(a) /\ a.web.uri \notin seen
            THEN <<[title |-> a.web.title, uri |-> a.web.uri]>>
                     \o KeptCitations(Tail(sources), seen \cup {a.web.uri})
            ELSE KeptCitations(Tail(sources), seen)

\* C18 (as claimed): of a successful text response the reply lists the
\* attributions that have both a title and a URI, the first of each URI only,
\* cut to at most 3 in first-seen order; an attribution lacking a title or a
\* URI is never listed and takes none of the 3 places.
C18_OnlyCompleteAttributions ==
    (TextHandled /\ outcome.status = "OK" /\ TextPresent(outcome.data)
       /\ Len(replies) = 1) =>
        ListedSources(replies[1].body)
            = Prefix(KeptCitations(ResponseSources(outcome.data), {}), MaxSources)

\* C19: in webhook mode the HTTP status of an update's POST is written only
\* by the step that ends its processing, 200 when process_update ran to its
\* end and 500 when it raised, and nothing of the update is done after it;
\* the listener takes the next update only when it is idle and the update
\* before it, if there was one, has been answered.
C19_ResponseAfterProcessing ==
    [][ mainpc = "serve_forever" =>
          /\ (httpStatus' # httpStatus /\ httpStatus' # "none" =>
                /\ pc \in {"returned", "raised"}
                /\ pc' = "idle"
                /\ httpStatus' = (IF pc = "returned" THEN "200" ELSE "500")
                /\ UNCHANGED <<notices, requests, replies>>)
          /\ (httpStatus # "none" /\ httpStatus' = httpStatus =>
                /\ pc = "idle"
                /\ UNCHANGED <<pc, notices, requests, replies>>)
          /\ (Len(backlog') < Len(backlog) =>
                /\ pc = "idle"
                /\ \/ httpStatus \in {"200", "500"}
                   \/ (httpStatus = "none" /\ update = NoUpdate /\ fault = "none"))
      ]_vars

\* C19 witness: an update whose processing raised has been answered 500,
\* the listener is idle again and the next update is waiting.
C19_Witness ==
    /\ mainpc = "serve_forever"
    /\ httpStatus = "500"
    /\ pc = "idle"
    /\ fault # "none"
    /\ Len(backlog) > 0
====
